---- MODULE Spec2Model ----
(***************************************************************************)
(* Campsite reservation checker: the availability classifier               *)
(* (check_availability), the notifier (send_pushover_notification) and the *)
(* monitor loop, in its two variants:                                      *)
(*   "playwright"  src/check_campsites.py           (__main__ loop)        *)
(*   "selenium"    src/check_campsites_selenium.py  (background task)      *)
(* The state of one run of one variant is a record; `run` is the run under *)
(* study and `twin` a second run that the paired specifications drive in   *)
(* lockstep with `run` on the same inputs.                                 *)
(*   Spec         one run of either variant                                *)
(*   SpecLive     Spec with weak fairness of the program's steps           *)
(*   SpecService  the Selenium service with its health-check endpoint      *)
(*   SpecCreds    one variant, with and without the Pushover credentials   *)
(*   SpecLoops    the two loops fed the same cycle outcomes                *)
(***************************************************************************)
EXTENDS Naturals, Sequences, FiniteSets

VARIABLES run, twin

vars == <<run, twin>>

\* ---------------------------------------------------------------- bounds
\* Number of probe cycles a run may start.
MaxCycles == 4
\* Number of health-check requests a run of the service may receive.
MaxRequests == 2

\* ------------------------------------------------------------- constants
MAX_CONSECUTIVE_FAILURES == 3

Variants == {"playwright", "selenium"}
Outcomes == {"SUCCESS_FOUND", "SUCCESS_NOT_FOUND", "FAILURE"}

\* Raw signals of the probe (the browser driver) at one step: the call
\* returned, raised the driver's timeout exception, or raised another one.
Signals == {"ok", "timeout", "error"}
\* Steps that take no timeout of their own: they return or raise.
CallSignals == {"ok", "error"}
\* What the POST to the notification sink does: HTTP 200, another status,
\* or requests.RequestException.
PostResults == {"200", "non200", "RequestException"}

\* Terminal positions of the loop.
Stopped == {"STOPPED_FATAL", "STOPPED_USER", "CRASHED"}
\* Positions of the loop body outside check_availability.
LoopPcs == {"call", "update", "notify_stopped", "notify_available", "sleep"}
\* Positions inside check_availability, per variant.
PwProbePcs == {"launch", "goto", "arrival", "departure", "click", "marker",
               "close_not_found", "close_found", "screenshot", "handler_close"}
SeProbePcs == {"driver", "get", "wait_page", "wait_clickable", "js_click",
               "se_marker", "save_screenshot"}

\* ------------------------------------------------------------- helpers
Last(s) == s[Len(s)]

\* The messages of the loop and the phrase the notifier looks for, word by
\* word (punctuation is a word of its own).
notification_message ==
  <<"A", "site", "may", "be", "available", "for", "your", "selected",
    "dates", "!", "Go", "book", "it", "now", "!">>

pw_failure_message ==
  <<"Campsite", "script", "stopped", "after", "3", "failed", "attempts",
    "to", "access", "the", "website", ".">>

se_failure_message ==
  <<"Campsite", "script", "stopped", "after", "3", "failed", "attempts", ".">>

BookItNow == <<"book", "it", "now">>

\* Python's `phrase in message`.
Contains(message, phrase) ==
  \E i \in 1..Len(message) :
    /\ i + Len(phrase) - 1 <= Len(message)
    /\ SubSeq(message, i, i + Len(phrase) - 1) = phrase

\* No payload has been built.
NoPayload ==
  [keys |-> {}, message |-> << >>, title |-> "", priority |-> 0,
   url |-> FALSE, url_title |-> ""]

\* The state right after construction: the module-level configuration has
\* been read; the Playwright script has executed consecutive_failures = 0,
\* the Selenium module has built `app` and its lifespan has not started.
InitRun(v, url, creds) ==
  [ variant              |-> v,
    TARGET_URL           |-> url,       \* TRUE: set to a non-empty string
    credentials          |-> creds,     \* TRUE: token and user key both set
    pc                   |-> IF v = "selenium" THEN "startup" ELSE "call",
    consecutive_failures |-> 0,
    status               |-> "none",
    cycle                |-> 0,         \* cycles started
    open_sessions        |-> {},        \* browsers alive, named by the cycle that launched them
    sessions_opened      |-> 0,
    session_id           |-> 0,         \* the browser this call holds, 0 if none
    signals              |-> << >>,     \* <<step, signal>> of the current cycle
    events               |-> << >>,     \* loop events of the current cycle
    outcomes             |-> << >>,     \* outcome of every cycle that returned
    counter_seq          |-> << >>,     \* consecutive_failures after each update
    available_log        |-> << >>,     \* 'available' attempts of each finished cycle
    cycle_available      |-> 0,         \* 'available' attempts of the current cycle
    available_attempts   |-> 0,
    stopped_attempts     |-> 0,
    posts                |-> 0,         \* HTTP POSTs made
    payload              |-> NoPayload, \* payload of the POST of the current cycle
    post_result          |-> "none",    \* what that POST did
    notify_log           |-> "none",    \* what the notifier printed in the current cycle
    capture_cycle        |-> 0,         \* cycle that last wrote error_screenshot.png
    tasks_created        |-> 0,         \* selenium: background_checker_task objects created
    requests_pending     |-> 0,         \* selenium: requests received, not yet answered
    requests_served      |-> 0,         \* selenium: requests answered
    last_response        |-> "none",    \* selenium: body of the last answer
    served_at            |-> "none",    \* selenium: position of the task at the last answer
    sleeps               |-> 0,         \* inter-cycle sleeps entered
    should_exit          |-> FALSE,     \* selenium: server asked to shut down
    interrupted_at       |-> "none" ]   \* position at which the user interrupt arrived

Note(r, step, sig) == [r EXCEPT !.signals = Append(@, <<step, sig>>)]
Got(r, step, sig) == \E i \in 1..Len(r.signals) : r.signals[i] = <<step, sig>>


\* ====================================================================
\* src/check_campsites.py (Playwright variant)
\* ====================================================================

\* Leaving the `with sync_playwright() as p:` block, by return or by an
\* exception: Playwright is stopped and the browser it launched goes with it.
pw_with_exit(r) == [r EXCEPT !.open_sessions = @ \ {r.session_id}, !.session_id = 0]

\* `return <outcome>` inside the with block; the caller assigns it to status.
pw_return(r, outcome) ==
  [pw_with_exit(r) EXCEPT !.status = outcome,
                          !.outcomes = Append(@, outcome),
                          !.pc = "update"]

\* An exception leaves check_availability. The __main__ loop catches only
\* KeyboardInterrupt, so the process ends with a traceback.
pw_raise(r) == [pw_with_exit(r) EXCEPT !.pc = "CRASHED"]

\* Mutant of pw_call: the TARGET_URL guard is missing.
pw_call_no_guard(r) ==
  [r EXCEPT !.cycle = @ + 1, !.signals = << >>,
            !.events = <<"probe">>, !.cycle_available = 0,
            !.payload = NoPayload, !.post_result = "none",
            !.notify_log = "none", !.pc = "launch"]

\* status = check_availability(): entry, and the TARGET_URL guard.
pw_call(r) ==
  LET s == [r EXCEPT !.cycle = @ + 1, !.signals = << >>,
                     !.events = <<"probe">>, !.cycle_available = 0,
                     !.payload = NoPayload, !.post_result = "none",
                     !.notify_log = "none"]
  IN IF ~s.TARGET_URL
       THEN [s EXCEPT !.status = "FAILURE",
                      !.outcomes = Append(@, "FAILURE"),
                      !.pc = "update"]
       ELSE [s EXCEPT !.pc = "launch"]

\* p.chromium.launch / new_context / new_page: before the try statement.
pw_launch(r, sig) ==
  LET s == Note(r, "launch", sig)
  IN IF sig = "ok"
       THEN [s EXCEPT !.open_sessions = @ \cup {r.cycle},
                      !.sessions_opened = @ + 1,
                      !.session_id = r.cycle,
                      !.pc = "goto"]
       ELSE pw_raise(s)

\* A step of the outer try body: on success go on to `next`; both except
\* clauses (PlaywrightTimeoutError, Exception) start with the screenshot.
pw_try_step(r, step, sig, next) ==
  LET s == Note(r, step, sig)
  IN IF sig = "ok" THEN [s EXCEPT !.pc = next]
                   ELSE [s EXCEPT !.pc = "screenshot"]

pw_goto(r, sig) == pw_try_step(r, "goto", sig, "arrival")

pw_arrival(r, sig) == pw_try_step(r, "arrival", sig, "departure")

pw_departure(r, sig) == pw_try_step(r, "departure", sig, "click")

pw_click(r, sig) == pw_try_step(r, "click", sig, "marker")

\* Mutant of pw_marker: the inner except clause is missing, so the timeout of
\* the marker wait is handled like every other timeout.
pw_marker_timeout_is_failure(r, sig) ==
  LET s == Note(r, "marker", sig)
  IN IF sig = "ok" THEN [s EXCEPT !.pc = "close_not_found"]
                   ELSE [s EXCEPT !.pc = "screenshot"]

\* no_sites_locator.wait_for(state="visible", timeout=10000) in the inner
\* try: visible -> the NOT_FOUND branch; PlaywrightTimeoutError -> the inner
\* except clause (FOUND branch); anything else -> the outer except clauses.
pw_marker(r, sig) ==
  LET s == Note(r, "marker", sig)
  IN CASE sig = "ok"      -> [s EXCEPT !.pc = "close_not_found"]
       [] sig = "timeout" -> [s EXCEPT !.pc = "close_found"]
       [] OTHER           -> [s EXCEPT !.pc = "screenshot"]

\* context.close(); return 'SUCCESS_NOT_FOUND'  (inside the inner try)
pw_close_not_found(r, sig) ==
  LET s == Note(r, "close", sig)
  IN IF sig = "ok" THEN pw_return(s, "SUCCESS_NOT_FOUND")
                   ELSE [s EXCEPT !.pc = "screenshot"]

\* context.close(); return 'SUCCESS_FOUND'  (inside the inner except clause)
pw_close_found(r, sig) ==
  LET s == Note(r, "close", sig)
  IN IF sig = "ok" THEN pw_return(s, "SUCCESS_FOUND")
                   ELSE [s EXCEPT !.pc = "screenshot"]

\* page.screenshot(path="error_screenshot.png") in an except clause: an
\* exception raised here is handled by nothing in check_availability.
pw_screenshot(r, sig) ==
  LET s == Note(r, "screenshot", sig)
  IN IF sig = "ok" THEN [s EXCEPT !.capture_cycle = r.cycle,
                                   !.pc = "handler_close"]
                   ELSE pw_raise(s)

\* context.close(); return 'FAILURE'  (in an except clause)
pw_handler_close(r, sig) ==
  LET s == Note(r, "handler_close", sig)
  IN IF sig = "ok" THEN pw_return(s, "FAILURE")
                   ELSE pw_raise(s)

\* Mutant of pw_send_pushover_notification: missing credentials are counted
\* as a failed attempt of the loop.
pw_send_missing_credentials_fail(r, message, title, post) ==
  IF ~r.credentials
    THEN [r EXCEPT !.consecutive_failures = @ + 1]
    ELSE [r EXCEPT !.posts = @ + 1]

\* Mutant of pw_payload: the deep link is attached to every payload.
pw_payload_always_link(r, message, title) ==
  [keys |-> {"token", "user", "message", "title", "priority", "url", "url_title"},
   message |-> message, title |-> title, priority |-> 1,
   url |-> r.TARGET_URL, url_title |-> "Book Now!"]

\* The payload dictionary: five keys always, and the deep link when the
\* message contains "book it now".
pw_payload(r, message, title) ==
  LET base == [keys |-> {"token", "user", "message", "title", "priority"},
               message |-> message, title |-> title, priority |-> 1,
               url |-> FALSE, url_title |-> ""]
  IN IF Contains(message, BookItNow)
       THEN [base EXCEPT !.keys = @ \cup {"url", "url_title"},
                         !.url = r.TARGET_URL,
                         !.url_title = "Book Now!"]
       ELSE base

\* send_pushover_notification: without credentials it returns before any
\* request; otherwise one POST, after which status 200 prints success, any
\* other status prints a failure and a RequestException prints an error.
pw_send_pushover_notification(r, message, title, post) ==
  IF ~r.credentials
    THEN [r EXCEPT !.notify_log = "skipped"]
    ELSE [r EXCEPT !.posts = @ + 1,
                   !.payload = pw_payload(r, message, title),
                   !.post_result = post,
                   !.notify_log = CASE post = "200"    -> "sent"
                                    [] post = "non200" -> "failed"
                                    [] OTHER           -> "error"]

\* print("--- Waiting ..."); time.sleep(CHECK_INTERVAL_SECONDS) is entered.
pw_enter_sleep(r) ==
  [r EXCEPT !.pc = "sleep",
            !.sleeps = @ + 1,
            !.events = Append(@, "sleep"),
            !.available_log = Append(@, r.cycle_available)]

\* Mutant of pw_update: the else branch that resets the counter is missing.
pw_update_no_reset(r) ==
  LET n == IF r.status = "FAILURE" THEN r.consecutive_failures + 1
                                   ELSE r.consecutive_failures
      s == [r EXCEPT !.consecutive_failures = n,
                     !.counter_seq = Append(@, n),
                     !.events = Append(@, "update")]
  IN IF r.status = "FAILURE" /\ n >= MAX_CONSECUTIVE_FAILURES
       THEN [s EXCEPT !.pc = "notify_stopped"]
       ELSE IF r.status = "SUCCESS_FOUND"
              THEN [s EXCEPT !.pc = "notify_available"]
              ELSE pw_enter_sleep(s)

\* Mutant of pw_update: a repeated SUCCESS_FOUND is not notified again.
pw_update_suppress_repeat(r) ==
  LET n == IF r.status = "FAILURE" THEN r.consecutive_failures + 1 ELSE 0
      k == Len(r.outcomes)
      s == [r EXCEPT !.consecutive_failures = n,
                     !.counter_seq = Append(@, n),
                     !.events = Append(@, "update")]
  IN IF r.status = "FAILURE" /\ n >= MAX_CONSECUTIVE_FAILURES
       THEN [s EXCEPT !.pc = "notify_stopped"]
       ELSE IF r.status = "SUCCESS_FOUND"
                 /\ ~(k >= 2 /\ r.outcomes[k - 1] = "SUCCESS_FOUND")
              THEN [s EXCEPT !.pc = "notify_available"]
              ELSE pw_enter_sleep(s)

\* Mutant of pw_update: a cycle that sends no notification goes straight on
\* to the next probe, without the sleep.
pw_update_no_sleep(r) ==
  LET n == IF r.status = "FAILURE" THEN r.consecutive_failures + 1 ELSE 0
      s == [r EXCEPT !.consecutive_failures = n,
                     !.counter_seq = Append(@, n),
                     !.events = Append(@, "update")]
  IN IF r.status = "FAILURE" /\ n >= MAX_CONSECUTIVE_FAILURES
       THEN [s EXCEPT !.pc = "notify_stopped"]
       ELSE IF r.status = "SUCCESS_FOUND"
              THEN [s EXCEPT !.pc = "notify_available"]
              ELSE [s EXCEPT !.pc = "call",
                             !.available_log = Append(@, r.cycle_available)]

\* The if/else on status that maintains consecutive_failures, and the
\* branch taken after it.
pw_update(r) ==
  LET n == IF r.status = "FAILURE" THEN r.consecutive_failures + 1 ELSE 0
      s == [r EXCEPT !.consecutive_failures = n,
                     !.counter_seq = Append(@, n),
                     !.events = Append(@, "update")]
  IN IF r.status = "FAILURE" /\ n >= MAX_CONSECUTIVE_FAILURES
       THEN [s EXCEPT !.pc = "notify_stopped"]
       ELSE IF r.status = "SUCCESS_FOUND"
              THEN [s EXCEPT !.pc = "notify_available"]
              ELSE pw_enter_sleep(s)

\* Mutant of pw_notify_stopped: the break is missing.
pw_notify_stopped_no_break(r, post) ==
  LET s == pw_send_pushover_notification(r, pw_failure_message, "Campsite Script Error", post)
  IN pw_enter_sleep([s EXCEPT !.stopped_attempts = @ + 1,
                              !.events = Append(@, "notify_stopped")])

\* send_pushover_notification(failure_message, title="Campsite Script Error"); break
pw_notify_stopped(r, post) ==
  LET s == pw_send_pushover_notification(r, pw_failure_message, "Campsite Script Error", post)
  IN [s EXCEPT !.stopped_attempts = @ + 1,
               !.events = Append(@, "notify_stopped"),
               !.available_log = Append(@, r.cycle_available),
               !.pc = "STOPPED_FATAL"]

\* send_pushover_notification(notification_message), then on to the sleep.
pw_notify_available(r, post) ==
  LET s == pw_send_pushover_notification(r, notification_message, "Campsite Available!", post)
  IN pw_enter_sleep([s EXCEPT !.available_attempts = @ + 1,
                              !.cycle_available = @ + 1,
                              !.events = Append(@, "notify_available")])

\* time.sleep returns; `while True` starts the next iteration.
pw_sleep(r) == [r EXCEPT !.pc = "call"]

\* Ctrl+C: KeyboardInterrupt is raised wherever the main thread is; the try
\* statement around the whole loop body catches it and breaks.
pw_KeyboardInterrupt(r) ==
  [pw_with_exit(r) EXCEPT !.interrupted_at = r.pc, !.pc = "STOPPED_USER"]


\* ====================================================================
\* src/check_campsites_selenium.py (Selenium variant, FastAPI wrapper)
\* ====================================================================

\* Mutant of se_finally: the finally clause is missing.
se_no_quit(r) == r

\* finally: driver.quit()
se_finally(r) == [r EXCEPT !.open_sessions = @ \ {r.session_id}, !.session_id = 0]

\* `return <outcome>` inside the try statement: the finally clause runs first.
se_return(r, outcome) ==
  [se_finally(r) EXCEPT !.status = outcome,
                        !.outcomes = Append(@, outcome),
                        !.pc = "update"]

\* An exception leaves the try statement (after its finally clause) and
\* then background_checker_task, which handles nothing: the task ends.
se_raise(r) == [se_finally(r) EXCEPT !.pc = "CRASHED"]

\* status = check_availability(): entry, and the TARGET_URL guard.
se_call(r) ==
  LET s == [r EXCEPT !.cycle = @ + 1, !.signals = << >>,
                     !.events = <<"probe">>, !.cycle_available = 0,
                     !.payload = NoPayload, !.post_result = "none",
                     !.notify_log = "none"]
  IN IF ~s.TARGET_URL
       THEN [s EXCEPT !.status = "FAILURE",
                      !.outcomes = Append(@, "FAILURE"),
                      !.pc = "update"]
       ELSE [s EXCEPT !.pc = "driver"]

\* ChromeDriverManager().install() and webdriver.Chrome(...): before the
\* try statement, so neither the except clauses nor the finally clause apply.
se_driver(r, sig) ==
  LET s == Note(r, "driver", sig)
  IN IF sig = "ok"
       THEN [s EXCEPT !.open_sessions = @ \cup {r.cycle},
                      !.sessions_opened = @ + 1,
                      !.session_id = r.cycle,
                      !.pc = "get"]
       ELSE [s EXCEPT !.pc = "CRASHED"]

\* Mutant of se_try_step: the except clauses return FAILURE without the
\* screenshot.
se_try_step_no_capture(r, step, sig, next) ==
  LET s == Note(r, step, sig)
  IN IF sig = "ok" THEN [s EXCEPT !.pc = next]
                   ELSE se_return(s, "FAILURE")

\* A step of the outer try body: on success go on to `next`; both except
\* clauses (TimeoutException, Exception) start with save_screenshot.
se_try_step(r, step, sig, next) ==
  LET s == Note(r, step, sig)
  IN IF sig = "ok" THEN [s EXCEPT !.pc = next]
                   ELSE [s EXCEPT !.pc = "save_screenshot"]

se_get(r, sig) == se_try_step(r, "get", sig, "wait_page")

se_wait_page(r, sig) == se_try_step(r, "wait_page", sig, "wait_clickable")

se_wait_clickable(r, sig) == se_try_step(r, "wait_clickable", sig, "js_click")

\* driver.find_element(...) and driver.execute_script("arguments[0].click();", ...)
se_js_click(r, sig) == se_try_step(r, "js_click", sig, "se_marker")

\* Mutant of se_marker: the inner except clause catches every exception.
se_marker_any_fault_is_found(r, sig) ==
  LET s == Note(r, "marker", sig)
  IN IF sig = "ok" THEN se_return(s, "SUCCESS_NOT_FOUND")
                   ELSE se_return(s, "SUCCESS_FOUND")

\* short_wait.until(visibility_of_element_located(NO_SITES_MESSAGE_XPATH)) in
\* the inner try: visible -> return NOT_FOUND; TimeoutException -> return
\* FOUND; anything else -> the outer except clauses.
se_marker(r, sig) ==
  LET s == Note(r, "marker", sig)
  IN CASE sig = "ok"      -> se_return(s, "SUCCESS_NOT_FOUND")
       [] sig = "timeout" -> se_return(s, "SUCCESS_FOUND")
       [] OTHER           -> [s EXCEPT !.pc = "save_screenshot"]

\* driver.save_screenshot("error_screenshot.png"); return 'FAILURE'  (in an
\* except clause: an exception raised here leaves check_availability).
se_save_screenshot(r, sig) ==
  LET s == Note(r, "screenshot", sig)
  IN IF sig = "ok" THEN se_return([s EXCEPT !.capture_cycle = r.cycle], "FAILURE")
                   ELSE se_raise(s)

\* The payload dictionary: five keys always, and the deep link when the
\* message contains "book it now".
se_payload(r, message, title) ==
  LET base == [keys |-> {"token", "user", "message", "title", "priority"},
               message |-> message, title |-> title, priority |-> 1,
               url |-> FALSE, url_title |-> ""]
  IN IF Contains(message, BookItNow)
       THEN [base EXCEPT !.keys = @ \cup {"url", "url_title"},
                         !.url = r.TARGET_URL,
                         !.url_title = "Book Now!"]
       ELSE base

\* send_pushover_notification: without credentials it returns before any
\* request; otherwise one POST; the response is not looked at and success
\* is printed whatever its status, a RequestException prints an error.
se_send_pushover_notification(r, message, title, post) ==
  IF ~r.credentials
    THEN [r EXCEPT !.notify_log = "skipped"]
    ELSE [r EXCEPT !.posts = @ + 1,
                   !.payload = se_payload(r, message, title),
                   !.post_result = post,
                   !.notify_log = IF post = "RequestException" THEN "error"
                                                               ELSE "sent"]

\* print("--- Check complete ..."); await asyncio.sleep(...) is entered.
se_enter_sleep(r) ==
  [r EXCEPT !.pc = "sleep",
            !.sleeps = @ + 1,
            !.events = Append(@, "sleep"),
            !.available_log = Append(@, r.cycle_available)]

\* lifespan, before its yield: asyncio.create_task(background_checker_task());
\* consecutive_failures = 0 is the first statement the task executes.
lifespan(r) == [r EXCEPT !.tasks_created = @ + 1, !.pc = "call"]

\* Mutant of se_update: every outcome but SUCCESS_NOT_FOUND is notified as
\* 'available'.
se_update_notify_unless_not_found(r) ==
  LET n == IF r.status = "FAILURE" THEN r.consecutive_failures + 1 ELSE 0
      s == [r EXCEPT !.consecutive_failures = n,
                     !.counter_seq = Append(@, n),
                     !.events = Append(@, "update")]
  IN IF r.status = "FAILURE" /\ n >= MAX_CONSECUTIVE_FAILURES
       THEN [s EXCEPT !.pc = "notify_stopped"]
       ELSE IF r.status # "SUCCESS_NOT_FOUND"
              THEN [s EXCEPT !.pc = "notify_available"]
              ELSE se_enter_sleep(s)

\* Mutant of se_update: the ceiling is tested with > instead of >=.
se_update_late_stop(r) ==
  LET n == IF r.status = "FAILURE" THEN r.consecutive_failures + 1 ELSE 0
      s == [r EXCEPT !.consecutive_failures = n,
                     !.counter_seq = Append(@, n),
                     !.events = Append(@, "update")]
  IN IF r.status = "FAILURE" /\ n > MAX_CONSECUTIVE_FAILURES
       THEN [s EXCEPT !.pc = "notify_stopped"]
       ELSE IF r.status = "SUCCESS_FOUND"
              THEN [s EXCEPT !.pc = "notify_available"]
              ELSE se_enter_sleep(s)

\* The if/else on status that maintains consecutive_failures, and the
\* branch taken after it.
se_update(r) ==
  LET n == IF r.status = "FAILURE" THEN r.consecutive_failures + 1 ELSE 0
      s == [r EXCEPT !.consecutive_failures = n,
                     !.counter_seq = Append(@, n),
                     !.events = Append(@, "update")]
  IN IF r.status = "FAILURE" /\ n >= MAX_CONSECUTIVE_FAILURES
       THEN [s EXCEPT !.pc = "notify_stopped"]
       ELSE IF r.status = "SUCCESS_FOUND"
              THEN [s EXCEPT !.pc = "notify_available"]
              ELSE se_enter_sleep(s)

\* Mutant of se_notify_stopped: the break is missing.
se_notify_stopped_no_break(r, post) ==
  LET s == se_send_pushover_notification(r, se_failure_message, "Campsite Script Error", post)
  IN se_enter_sleep([s EXCEPT !.stopped_attempts = @ + 1,
                              !.events = Append(@, "notify_stopped")])

\* send_pushover_notification(failure_message, title="Campsite Script Error"); break
se_notify_stopped(r, post) ==
  LET s == se_send_pushover_notification(r, se_failure_message, "Campsite Script Error", post)
  IN [s EXCEPT !.stopped_attempts = @ + 1,
               !.events = Append(@, "notify_stopped"),
               !.available_log = Append(@, r.cycle_available),
               !.pc = "STOPPED_FATAL"]

\* send_pushover_notification(notification_message), then on to the sleep.
se_notify_available(r, post) ==
  LET s == se_send_pushover_notification(r, notification_message, "Campsite Available!", post)
  IN se_enter_sleep([s EXCEPT !.available_attempts = @ + 1,
                              !.cycle_available = @ + 1,
                              !.events = Append(@, "notify_available")])

\* Ctrl+C under uvicorn.run: the server's signal handler only records that
\* it should exit; the task, which never yields to the event loop inside a
\* cycle, runs on.
se_sigint(r) == [r EXCEPT !.should_exit = TRUE, !.interrupted_at = r.pc]

\* await asyncio.sleep(CHECK_INTERVAL_SECONDS): the only point at which the
\* task yields. A server that was asked to exit shuts down there and the
\* task is cancelled; otherwise the sleep returns and the loop goes on.
se_sleep(r) ==
  IF r.should_exit THEN [r EXCEPT !.pc = "STOPPED_USER"]
                   ELSE [r EXCEPT !.pc = "call"]

\* A client sends GET / or HEAD /: the connection waits for the event loop.
request_arrives(r) == [r EXCEPT !.requests_pending = @ + 1]

\* The event loop of uvicorn.run can run something other than the task:
\* the task is suspended at its only await, or it has ended (by break or by
\* an exception). check_availability and send_pushover_notification are
\* plain blocking calls made by the task on the event loop.
event_loop_free(r) == r.pc \in {"sleep", "STOPPED_FATAL", "CRASHED"}

\* The server can answer a waiting request.
can_serve(r) ==
  /\ r.tasks_created > 0
  /\ r.requests_pending > 0
  /\ ~r.should_exit
  /\ event_loop_free(r)

\* Mutant of root: the handler starts a checker task of its own.
root_starts_task(r) ==
  [r EXCEPT !.requests_pending = @ - 1,
            !.requests_served = @ + 1,
            !.tasks_created = @ + 1,
            !.last_response = "Campsaite checker is running.",
            !.served_at = r.pc]

\* @app.api_route("/", methods=["GET", "HEAD"]) def root(): the static
\* JSONResponse.
root(r) ==
  [r EXCEPT !.requests_pending = @ - 1,
            !.requests_served = @ + 1,
            !.last_response = "Campsaite checker is running.",
            !.served_at = r.pc]


\* ====================================================================
\* One step of a run, by variant and position
\* ====================================================================

\* The signals a step of the probe can produce. The session-close calls
\* take no timeout: they return or raise.
SignalsAt(pc) ==
  IF pc \in {"close_not_found", "close_found", "handler_close"}
    THEN CallSignals
    ELSE Signals

pw_step(r, sig, post) ==
  CASE r.pc = "call"             -> IF r.cycle < MaxCycles THEN pw_call(r) ELSE r
    [] r.pc = "launch"           -> pw_launch(r, sig)
    [] r.pc = "goto"             -> pw_goto(r, sig)
    [] r.pc = "arrival"          -> pw_arrival(r, sig)
    [] r.pc = "departure"        -> pw_departure(r, sig)
    [] r.pc = "click"            -> pw_click(r, sig)
    [] r.pc = "marker"           -> pw_marker(r, sig)
    [] r.pc = "close_not_found"  -> pw_close_not_found(r, sig)
    [] r.pc = "close_found"      -> pw_close_found(r, sig)
    [] r.pc = "screenshot"       -> pw_screenshot(r, sig)
    [] r.pc = "handler_close"    -> pw_handler_close(r, sig)
    [] r.pc = "update"           -> pw_update(r)
    [] r.pc = "notify_stopped"   -> pw_notify_stopped(r, post)
    [] r.pc = "notify_available" -> pw_notify_available(r, post)
    [] r.pc = "sleep"            -> pw_sleep(r)
    [] OTHER                     -> r

se_step(r, sig, post) ==
  CASE r.pc = "startup"          -> lifespan(r)
    [] r.pc = "call"             -> IF r.cycle < MaxCycles THEN se_call(r) ELSE r
    [] r.pc = "driver"           -> se_driver(r, sig)
    [] r.pc = "get"              -> se_get(r, sig)
    [] r.pc = "wait_page"        -> se_wait_page(r, sig)
    [] r.pc = "wait_clickable"   -> se_wait_clickable(r, sig)
    [] r.pc = "js_click"         -> se_js_click(r, sig)
    [] r.pc = "se_marker"        -> se_marker(r, sig)
    [] r.pc = "save_screenshot"  -> se_save_screenshot(r, sig)
    [] r.pc = "update"           -> se_update(r)
    [] r.pc = "notify_stopped"   -> se_notify_stopped(r, post)
    [] r.pc = "notify_available" -> se_notify_available(r, post)
    [] r.pc = "sleep"            -> se_sleep(r)
    [] OTHER                     -> r

\* A user interrupt (SIGINT) delivered to the process.
interrupt(r) ==
  CASE r.pc \in Stopped         -> r
    [] r.variant = "playwright" -> pw_KeyboardInterrupt(r)
    [] r.should_exit            -> r
    [] OTHER                    -> se_sigint(r)

\* ====================================================================
\* Actions of a single run
\* ====================================================================
Pw(pc) == run.variant = "playwright" /\ run.pc = pc
Se(pc) == run.variant = "selenium" /\ run.pc = pc

PwCall == Pw("call") /\ run.cycle < MaxCycles /\ run' = pw_call(run) /\ UNCHANGED twin
PwLaunch == Pw("launch") /\ \E sig \in Signals : run' = pw_launch(run, sig) /\ UNCHANGED twin
PwGoto == Pw("goto") /\ \E sig \in Signals : run' = pw_goto(run, sig) /\ UNCHANGED twin
PwArrival == Pw("arrival") /\ \E sig \in Signals : run' = pw_arrival(run, sig) /\ UNCHANGED twin
PwDeparture == Pw("departure") /\ \E sig \in Signals : run' = pw_departure(run, sig) /\ UNCHANGED twin
PwClick == Pw("click") /\ \E sig \in Signals : run' = pw_click(run, sig) /\ UNCHANGED twin
PwMarker == Pw("marker") /\ \E sig \in Signals : run' = pw_marker(run, sig) /\ UNCHANGED twin
PwCloseNotFound == Pw("close_not_found") /\ \E sig \in CallSignals : run' = pw_close_not_found(run, sig) /\ UNCHANGED twin
PwCloseFound == Pw("close_found") /\ \E sig \in CallSignals : run' = pw_close_found(run, sig) /\ UNCHANGED twin
PwScreenshot == Pw("screenshot") /\ \E sig \in Signals : run' = pw_screenshot(run, sig) /\ UNCHANGED twin
PwHandlerClose == Pw("handler_close") /\ \E sig \in CallSignals : run' = pw_handler_close(run, sig) /\ UNCHANGED twin
PwUpdate == Pw("update") /\ run' = pw_update(run) /\ UNCHANGED twin
PwNotifyStopped == Pw("notify_stopped") /\ \E post \in PostResults : run' = pw_notify_stopped(run, post) /\ UNCHANGED twin
PwNotifyAvailable == Pw("notify_available") /\ \E post \in PostResults : run' = pw_notify_available(run, post) /\ UNCHANGED twin
PwSleep == Pw("sleep") /\ run' = pw_sleep(run) /\ UNCHANGED twin
PwKeyboardInterrupt == run.variant = "playwright" /\ run.pc \notin Stopped /\ run' = pw_KeyboardInterrupt(run) /\ UNCHANGED twin

SeLifespan == Se("startup") /\ run' = lifespan(run) /\ UNCHANGED twin
SeCall == Se("call") /\ run.cycle < MaxCycles /\ run' = se_call(run) /\ UNCHANGED twin
SeDriver == Se("driver") /\ \E sig \in Signals : run' = se_driver(run, sig) /\ UNCHANGED twin
SeGet == Se("get") /\ \E sig \in Signals : run' = se_get(run, sig) /\ UNCHANGED twin
SeWaitPage == Se("wait_page") /\ \E sig \in Signals : run' = se_wait_page(run, sig) /\ UNCHANGED twin
SeWaitClickable == Se("wait_clickable") /\ \E sig \in Signals : run' = se_wait_clickable(run, sig) /\ UNCHANGED twin
SeJsClick == Se("js_click") /\ \E sig \in Signals : run' = se_js_click(run, sig) /\ UNCHANGED twin
SeMarker == Se("se_marker") /\ \E sig \in Signals : run' = se_marker(run, sig) /\ UNCHANGED twin
SeSaveScreenshot == Se("save_screenshot") /\ \E sig \in Signals : run' = se_save_screenshot(run, sig) /\ UNCHANGED twin
SeUpdate == Se("update") /\ run' = se_update(run) /\ UNCHANGED twin
SeNotifyStopped == Se("notify_stopped") /\ \E post \in PostResults : run' = se_notify_stopped(run, post) /\ UNCHANGED twin
SeNotifyAvailable == Se("notify_available") /\ \E post \in PostResults : run' = se_notify_available(run, post) /\ UNCHANGED twin
SeSleep == Se("sleep") /\ run' = se_sleep(run) /\ UNCHANGED twin
SeSigint == run.variant = "selenium" /\ run.pc \notin Stopped /\ ~run.should_exit /\ run' = se_sigint(run) /\ UNCHANGED twin

SeRequest ==
  /\ run.variant = "selenium"
  /\ run.requests_pending + run.requests_served < MaxRequests
  /\ run.pc # "STOPPED_USER"
  /\ run' = request_arrives(run)
  /\ UNCHANGED twin

SeRoot == run.variant = "selenium" /\ can_serve(run) /\ run' = root(run) /\ UNCHANGED twin

Init ==
  /\ run \in {InitRun(v, url, creds) : v \in Variants, url \in BOOLEAN, creds \in BOOLEAN}
  /\ twin = run

Next ==
  \/ PwCall \/ PwLaunch \/ PwGoto \/ PwArrival \/ PwDeparture \/ PwClick
  \/ PwMarker \/ PwCloseNotFound \/ PwCloseFound \/ PwScreenshot
  \/ PwHandlerClose \/ PwUpdate \/ PwNotifyStopped \/ PwNotifyAvailable
  \/ PwSleep \/ PwKeyboardInterrupt
  \/ SeLifespan \/ SeCall \/ SeDriver \/ SeGet \/ SeWaitPage \/ SeWaitClickable \/ SeJsClick
  \/ SeMarker \/ SeSaveScreenshot \/ SeUpdate \/ SeNotifyStopped
  \/ SeNotifyAvailable \/ SeSleep \/ SeSigint

Spec == Init /\ [][Next]_vars

\* The program keeps running: a step that can be taken is taken.
SpecLive == Init /\ [][Next]_vars /\ WF_vars(Next)

\* The Selenium service with its health-check endpoint.
InitService ==
  /\ run \in {InitRun("selenium", url, creds) : url \in BOOLEAN, creds \in BOOLEAN}
  /\ twin = run

NextService ==
  \/ SeLifespan \/ SeCall \/ SeDriver \/ SeGet \/ SeWaitPage \/ SeWaitClickable
  \/ SeJsClick \/ SeMarker \/ SeSaveScreenshot \/ SeUpdate \/ SeNotifyStopped
  \/ SeNotifyAvailable \/ SeSleep \/ SeSigint \/ SeRequest \/ SeRoot

SpecService == InitService /\ [][NextService]_vars


\* ====================================================================
\* Two runs in lockstep on the same inputs
\* ====================================================================
\* One step of a run on an input: a user interrupt, or the probe signal and
\* POST result that the step at hand consumes.
step(r, in) ==
  CASE in.intr                  -> interrupt(r)
    [] r.variant = "playwright" -> pw_step(r, in.sig, in.post)
    [] OTHER                    -> se_step(r, in.sig, in.post)

PairStep ==
  /\ run.pc \notin Stopped
  /\ \E sig \in SignalsAt(run.pc), post \in PostResults :
       LET in == [sig |-> sig, post |-> post, intr |-> FALSE]
       IN /\ run' = step(run, in)
          /\ twin' = step(twin, in)
  /\ run' # run

PairInterrupt ==
  /\ run.pc \notin Stopped
  /\ LET in == [sig |-> "ok", post |-> "200", intr |-> TRUE]
     IN /\ run' = step(run, in)
        /\ twin' = step(twin, in)
  /\ run' # run

PairNext == PairStep \/ PairInterrupt

\* The same variant and TARGET_URL; run has the Pushover credentials, twin
\* lacks them.
PairInitCreds ==
  \E v \in Variants, url \in BOOLEAN :
    /\ run = InitRun(v, url, TRUE)
    /\ twin = InitRun(v, url, FALSE)

SpecCreds == PairInitCreds /\ [][PairNext]_vars

\* ====================================================================
\* The two loops in lockstep on the same cycle outcomes
\* ====================================================================
\* status = check_availability() in the __main__ loop, for a call that
\* returns `outcome`.
pw_status(r, outcome) ==
  pw_return([r EXCEPT !.cycle = @ + 1, !.signals = << >>,
                      !.events = <<"probe">>, !.cycle_available = 0,
                      !.payload = NoPayload, !.post_result = "none",
                      !.notify_log = "none"],
            outcome)

\* status = check_availability() in background_checker_task, for a call
\* that returns `outcome`.
se_status(r, outcome) ==
  se_return([r EXCEPT !.cycle = @ + 1, !.signals = << >>,
                      !.events = <<"probe">>, !.cycle_available = 0,
                      !.payload = NoPayload, !.post_result = "none",
                      !.notify_log = "none"],
            outcome)

\* One step of a loop that is fed the outcome of its next cycle.
loop_step(r, outcome, post) ==
  CASE r.pc = "call" /\ r.cycle >= MaxCycles -> r
    [] r.pc = "call" /\ r.variant = "playwright" -> pw_status(r, outcome)
    [] r.pc = "call"                             -> se_status(r, outcome)
    [] r.variant = "playwright"                  -> pw_step(r, "ok", post)
    [] OTHER                                     -> se_step(r, "ok", post)

LoopsStep ==
  /\ run.pc \notin Stopped
  /\ \E outcome \in Outcomes, post \in PostResults :
       /\ run' = loop_step(run, outcome, post)
       /\ twin' = loop_step(twin, outcome, post)
  /\ run' # run

\* run is the __main__ loop, twin the background task that lifespan has
\* just created, on the same configuration.
InitLoops ==
  \E creds \in BOOLEAN :
    /\ run = InitRun("playwright", TRUE, creds)
    /\ twin = lifespan(InitRun("selenium", TRUE, creds))

SpecLoops == InitLoops /\ [][LoopsStep]_vars

\* ====================================================================
\* Properties
\* ====================================================================
RECURSIVE TrailingFailures(_)
\* Length of the run of FAILURE outcomes that ends the sequence.
TrailingFailures(s) ==
  IF Len(s) = 0 \/ Last(s) # "FAILURE"
    THEN 0
    ELSE 1 + TrailingFailures(SubSeq(s, 1, Len(s) - 1))

Prefix(s, i) == SubSeq(s, 1, i)

\* The loop has updated the counter for the last outcome returned.
Updated(r) == Len(r.counter_seq) = Len(r.outcomes)

InProbe(r) == r.pc \in PwProbePcs \cup SeProbePcs

\* C1: in both loops, after the counter update of every cycle N the value of
\* consecutive_failures is the length of the trailing run of FAILURE outcomes
\* ending at cycle N: one more than before on FAILURE, 0 on SUCCESS_FOUND and
\* SUCCESS_NOT_FOUND.
C1_CounterIsTrailingRun ==
  /\ Len(run.counter_seq) <= Len(run.outcomes)
  /\ Len(run.outcomes) <= Len(run.counter_seq) + 1
  /\ \A i \in 1..Len(run.counter_seq) :
       /\ run.counter_seq[i] = TrailingFailures(Prefix(run.outcomes, i))
       /\ run.counter_seq[i] =
            IF run.outcomes[i] = "FAILURE"
              THEN (IF i = 1 THEN 0 ELSE run.counter_seq[i - 1]) + 1
              ELSE 0
  /\ run.consecutive_failures =
       TrailingFailures(Prefix(run.outcomes, Len(run.counter_seq)))
  /\ run.pc \in {"notify_stopped", "notify_available", "sleep", "call", "STOPPED_FATAL"}
       => Updated(run)

\* Scenario E: FAILURE, SUCCESS_NOT_FOUND, FAILURE gives the counter 1, 0, 1.
C1_Witness ==
  /\ run.outcomes = <<"FAILURE", "SUCCESS_NOT_FOUND", "FAILURE">>
  /\ run.counter_seq = <<1, 0, 1>>
  /\ run.pc = "sleep"

\* C2: the loop stops fatally exactly when consecutive_failures reaches
\* MAX_CONSECUTIVE_FAILURES, in the cycle in which it reaches it: no probe
\* cycle is started (and none is running) with the counter at the ceiling,
\* the loop is never stopped fatally with the counter below it, and with the
\* counter at the ceiling the loop is at the 'stopped' notification or has
\* stopped (fatally, or by a user interrupt that arrived at that
\* notification).
C2_FatalStopIffCeiling ==
  /\ (run.pc = "call" \/ InProbe(run) \/ run.pc \in {"update", "notify_available", "sleep"})
       => run.consecutive_failures < MAX_CONSECUTIVE_FAILURES
  /\ run.pc = "STOPPED_FATAL"
       => /\ run.consecutive_failures = MAX_CONSECUTIVE_FAILURES
          /\ Updated(run)
          /\ Len(run.outcomes) = run.cycle
  /\ run.consecutive_failures >= MAX_CONSECUTIVE_FAILURES
       => /\ run.pc \in {"notify_stopped", "STOPPED_FATAL", "STOPPED_USER"}
          /\ run.pc = "STOPPED_USER" => run.interrupted_at = "notify_stopped"
          /\ Len(run.counter_seq) = run.cycle

C2_Witness ==
  /\ run.pc = "STOPPED_FATAL"
  /\ run.outcomes = <<"SUCCESS_NOT_FOUND", "FAILURE", "FAILURE", "FAILURE">>

\* C3: a cycle makes exactly one 'available' notification attempt when its
\* outcome is SUCCESS_FOUND and none when it is SUCCESS_NOT_FOUND or FAILURE,
\* whatever the earlier cycles returned.
C3_AvailableAttemptPerFoundCycle ==
  /\ Len(run.available_log) <= Len(run.outcomes)
  /\ \A i \in 1..Len(run.available_log) :
       run.available_log[i] = IF run.outcomes[i] = "SUCCESS_FOUND" THEN 1 ELSE 0
  /\ run.pc \in {"sleep", "STOPPED_FATAL"} => Len(run.available_log) = Len(run.outcomes)
  /\ run.cycle_available <= 1
  /\ run.cycle_available = 1 => run.status = "SUCCESS_FOUND" /\ Updated(run)

\* Two SUCCESS_FOUND cycles in a row, each with its own attempt.
C3_Witness ==
  /\ run.outcomes = <<"SUCCESS_FOUND", "SUCCESS_FOUND", "SUCCESS_NOT_FOUND">>
  /\ run.available_log = <<1, 1, 0>>
  /\ run.available_attempts = 2

C4_State ==
  /\ run.stopped_attempts <= 1
  /\ (Updated(run) /\ TrailingFailures(run.outcomes) >= MAX_CONSECUTIVE_FAILURES)
       => run.pc \in {"notify_stopped", "STOPPED_FATAL", "STOPPED_USER"}
  /\ run.pc = "STOPPED_FATAL"
       => /\ run.stopped_attempts = 1
          /\ Last(run.events) = "notify_stopped"
          /\ TrailingFailures(run.outcomes) = MAX_CONSECUTIVE_FAILURES
  /\ run.stopped_attempts = 1 => run.pc = "STOPPED_FATAL"

C4_Step ==
  run.stopped_attempts >= 1
    => /\ run'.cycle = run.cycle
       /\ run'.sleeps = run.sleeps
       /\ run'.available_attempts = run.available_attempts
       /\ run'.stopped_attempts = run.stopped_attempts
       /\ run'.events = run.events

\* C4: when MAX_CONSECUTIVE_FAILURES cycles in a row return FAILURE the loop
\* makes exactly one 'stopped' notification attempt, that attempt is the
\* last thing the loop does, and no probe cycle, 'available' notification or
\* sleep follows it.
C4_OneStoppedNotificationThenExit == []C4_State /\ [][C4_Step]_vars

C4_Witness ==
  /\ run.pc = "STOPPED_FATAL"
  /\ run.stopped_attempts = 1
  /\ run.outcomes = <<"FAILURE", "FAILURE", "FAILURE">>


\* check_availability has just returned: the signals are those of its call.
Returned(r) == r.pc = "update"

\* Navigation, the anchor waits and the list-view click all succeeded.
Validated(r) ==
  IF r.variant = "playwright"
    THEN /\ Got(r, "goto", "ok") /\ Got(r, "arrival", "ok")
         /\ Got(r, "departure", "ok") /\ Got(r, "click", "ok")
    ELSE /\ Got(r, "get", "ok") /\ Got(r, "wait_page", "ok")
         /\ Got(r, "wait_clickable", "ok") /\ Got(r, "js_click", "ok")

\* A timeout in navigation, in an anchor wait or at the list-view control.
EarlyTimeout(r) ==
  \E st \in {"goto", "arrival", "departure", "click",
             "get", "wait_page", "wait_clickable", "js_click"} :
    Got(r, st, "timeout")

\* C5 (as claimed): whatever the probe signals, check_availability returns
\* one of the three outcomes and no exception reaches the monitor loop.
C5_NoExceptionReachesLoop ==
  /\ run.pc # "CRASHED"
  /\ Returned(run) => run.status \in Outcomes

C7_SuccessOnlyFromValidatedPage ==
  /\ (Returned(run) /\ run.status \in {"SUCCESS_FOUND", "SUCCESS_NOT_FOUND"})
       => Validated(run)
  /\ (EarlyTimeout(run) /\ run.pc \in {"update", "CRASHED"})
       => (Returned(run) /\ run.status = "FAILURE")

\* C8 (as claimed): a user interrupt takes effect only between cycles; while
\* a probe or a notification call is in progress no step takes the loop to
\* STOPPED_USER, the cycle is left to finish.
C8_InterruptOnlyAtSleep ==
  [][(InProbe(run) \/ run.pc \in {"notify_stopped", "notify_available"})
       => run'.pc # "STOPPED_USER"]_vars

\* C9: two runs on the same probe signals and interrupts, one with the
\* Pushover credentials and one without, agree at every step on position,
\* outcomes, consecutive_failures, notification calls, sleeps and stop; they
\* differ only in the POSTs, of which the run without credentials makes none.
C9_CredentialsOnlySuppressPost ==
  /\ [twin EXCEPT !.credentials = run.credentials, !.posts = run.posts,
                   !.payload = run.payload, !.post_result = run.post_result,
                   !.notify_log = run.notify_log] = run
  /\ ~twin.credentials /\ twin.posts = 0
  /\ run.credentials /\ run.posts = run.available_attempts + run.stopped_attempts

C9_Witness ==
  /\ run.pc = "STOPPED_FATAL" /\ twin.pc = "STOPPED_FATAL"
  /\ run.outcomes = <<"SUCCESS_FOUND", "FAILURE", "FAILURE", "FAILURE">>
  /\ run.posts = 2 /\ twin.posts = 0

\* C10: the browser session belongs to one cycle: none is open outside
\* check_availability (while the loop updates, notifies, sleeps, or after it
\* stopped, by return, exception or user interrupt), at most one is open at
\* any time, and an open one was launched by the current cycle.
C10_SessionScopedToCycle ==
  /\ Cardinality(run.open_sessions) <= 1
  /\ ~InProbe(run) => (run.open_sessions = {} /\ run.session_id = 0)
  /\ run.open_sessions # {}
       => (run.open_sessions = {run.cycle} /\ run.session_id = run.cycle)
  /\ run.sessions_opened <= run.cycle

\* An exception inside the failure handler of the second cycle.
C10_Witness ==
  /\ run.pc = "CRASHED"
  /\ Got(run, "screenshot", "error")
  /\ run.sessions_opened = 2
  /\ run.open_sessions = {}


\* The loop's own state: everything but the bookkeeping of the requests.
LoopState(r) ==
  [r EXCEPT !.requests_pending = 0, !.requests_served = 0,
            !.last_response = "none", !.served_at = "none"]

\* The task is inside check_availability or inside a notification call: a
\* blocking call is running on the event loop.
InCycle(r) ==
  /\ r.variant = "selenium"
  /\ InProbe(r) \/ r.pc \in {"notify_stopped", "notify_available"}

C11_State == (InCycle(run) /\ run.requests_pending > 0) => can_serve(run)

C11_Step ==
  (run'.requests_served # run.requests_served
     \/ run'.requests_pending # run.requests_pending)
    => LoopState(run') = LoopState(run)

\* C11 (as claimed): a health-check request that is waiting while
\* background_checker_task is inside a cycle can be answered at once,
\* without waiting for the cycle to finish, and receiving or answering a
\* request changes nothing in the loop.
C11_HealthCheckNeverBlocked == []C11_State /\ [][C11_Step]_vars

C12_State ==
  /\ run.tasks_created <= 1
  /\ run.tasks_created = 1 <=> run.pc # "startup"
  /\ run.last_response \in {"none", "Campsaite checker is running."}
  /\ run.requests_served > 0 => run.last_response = "Campsaite checker is running."
  /\ run.served_at # "none" => run.requests_served > 0

C12_Step ==
  (run'.requests_served # run.requests_served
     \/ run'.requests_pending # run.requests_pending)
    => /\ run'.tasks_created = run.tasks_created
       /\ run'.cycle = run.cycle
       /\ run'.pc = run.pc
       /\ run'.consecutive_failures = run.consecutive_failures
       /\ run'.sessions_opened = run.sessions_opened
       /\ (run'.requests_served # run.requests_served
             => run'.last_response = "Campsaite checker is running.")

\* C12: the service creates exactly one background_checker_task, in the
\* startup part of lifespan; receiving or answering health-check requests
\* never creates another task, never starts a probe cycle and never
\* changes consecutive_failures; every answer is the same static
\* 'running' status, whatever the state of the loop, fatal stop included.
C12_OneTaskStaticAnswer == []C12_State /\ [][C12_Step]_vars

\* Both requests were answered, the last one after the loop stopped fatally.
C12_Witness ==
  /\ run.pc = "STOPPED_FATAL"
  /\ run.served_at = "STOPPED_FATAL"
  /\ run.requests_served = MaxRequests
  /\ run.tasks_created = 1
  /\ run.last_response = "Campsaite checker is running."

\* The orders in which one cycle can go through its events.
CycleOrders ==
  { <<"probe", "update", "sleep">>,
    <<"probe", "update", "notify_available", "sleep">>,
    <<"probe", "update", "notify_stopped">> }

IsPrefix(s, t) == Len(s) <= Len(t) /\ s = SubSeq(t, 1, Len(s))

\* C13: cycles are strictly sequential. At most one call of
\* check_availability is in flight; within a cycle the outcome comes before
\* the counter update, the update before a notification attempt and these
\* before the sleep; the probe of the next cycle starts only after the
\* sleep of the current one.
C13_CyclesSequential ==
  /\ \E t \in CycleOrders : IsPrefix(run.events, t)
  /\ Len(run.outcomes) <= run.cycle /\ run.cycle <= Len(run.outcomes) + 1
  /\ run.sleeps <= run.cycle /\ run.cycle <= run.sleeps + 1
  /\ Cardinality(run.open_sessions) <= 1
  /\ InProbe(run)
       => /\ run.events = <<"probe">>
          /\ Len(run.outcomes) = run.cycle - 1
          /\ Len(run.counter_seq) = run.cycle - 1
          /\ Len(run.available_log) = run.cycle - 1
          /\ run.sleeps = run.cycle - 1
  /\ run.pc = "sleep"
       => /\ Last(run.events) = "sleep"
          /\ Len(run.outcomes) = run.cycle
          /\ Updated(run)
          /\ run.status = "SUCCESS_FOUND" => run.cycle_available = 1
          /\ run.sleeps = run.cycle
  /\ run.pc = "call"
       => /\ run.sleeps = run.cycle
          /\ Len(run.outcomes) = run.cycle
          /\ Len(run.counter_seq) = run.cycle
          /\ Len(run.available_log) = run.cycle
          /\ run.cycle > 0 => Last(run.events) = "sleep"

\* The second probe is running, after the notification and the sleep of
\* the first cycle.
C13_Witness ==
  /\ run.cycle = 2 /\ InProbe(run)
  /\ run.outcomes = <<"SUCCESS_FOUND">>
  /\ run.available_attempts = 1
  /\ run.sleeps = 1

C14_State ==
  ~run.TARGET_URL
    => /\ run.sessions_opened = 0 /\ run.open_sessions = {}
       /\ ~InProbe(run) /\ run.signals = << >>
       /\ \A i \in 1..Len(run.outcomes) : run.outcomes[i] = "FAILURE"
       /\ run.pc = "update" => run.status = "FAILURE"
       /\ run.cycle <= MAX_CONSECUTIVE_FAILURES
       /\ run.available_attempts = 0
       /\ run.stopped_attempts = IF run.pc = "STOPPED_FATAL" THEN 1 ELSE 0
       /\ run.pc = "STOPPED_FATAL" => run.cycle = MAX_CONSECUTIVE_FAILURES
       /\ run.pc # "CRASHED"
       /\ run.pc = "STOPPED_USER" => run.interrupted_at # "none"

C14_Done == run.TARGET_URL \/ run.pc \in {"STOPPED_FATAL", "STOPPED_USER"}

\* C14: with TARGET_URL unset every cycle returns FAILURE without a browser
\* session and without any probe step, and the loop, unless the user
\* interrupts it first, ends in STOPPED_FATAL after exactly
\* MAX_CONSECUTIVE_FAILURES cycles, with exactly one 'stopped' notification
\* attempt and no 'available' one.
C14_MissingUrlStopsFatally == []C14_State /\ <>C14_Done

C14_Witness ==
  /\ ~run.TARGET_URL
  /\ run.pc = "STOPPED_FATAL"
  /\ run.cycle = MAX_CONSECUTIVE_FAILURES
  /\ run.outcomes = <<"FAILURE", "FAILURE", "FAILURE">>
  /\ run.stopped_attempts = 1 /\ run.available_attempts = 0
  /\ run.sessions_opened = 0

\* A notification call was made in the current cycle.
Notified(r) == r.notify_log # "none"

\* C15 (as claimed): a call of send_pushover_notification makes at most one
\* POST and returns normally; a POST that fails in the network or is
\* answered with a non-success status is printed as a failure, and the call
\* changes neither consecutive_failures nor the step the loop takes next.
C15_NotificationFaultLoggedOnly ==
  /\ run.posts <= run.available_attempts + run.stopped_attempts
  /\ run.post_result \in {"non200", "RequestException"}
       => run.notify_log \in {"failed", "error"}
  /\ Notified(run)
       => /\ run.pc \in {"sleep", "call", "STOPPED_FATAL", "STOPPED_USER"}
          /\ Updated(run)
          /\ run.consecutive_failures = TrailingFailures(run.outcomes)
          /\ run.pc = "STOPPED_FATAL" <=> Last(run.events) = "notify_stopped"

\* The cycle whose call has just returned touched the screenshot call.
CaptureTried(r) == \E sig \in Signals : Got(r, "screenshot", sig)

\* C16 (as claimed): a call that returns FAILURE has written
\* error_screenshot.png in this cycle, whatever the cause of the failure,
\* and a call that returns SUCCESS_FOUND or SUCCESS_NOT_FOUND has not.
C16_CaptureOnEveryFailure ==
  Returned(run)
    => IF run.status = "FAILURE"
         THEN run.capture_cycle = run.cycle
         ELSE run.capture_cycle < run.cycle /\ ~CaptureTried(run)

\* C16 (amended): a call that returns FAILURE after a timeout or an
\* unexpected error in the probe has written error_screenshot.png in this
\* cycle, replacing the capture of an earlier cycle; a call that returns
\* FAILURE because TARGET_URL is unset, or returns SUCCESS_FOUND or
\* SUCCESS_NOT_FOUND, has written none.
C16_CaptureOnProbeFailure ==
  /\ run.capture_cycle <= run.cycle
  /\ (run.capture_cycle > 0 /\ Len(run.outcomes) >= run.capture_cycle)
       => run.outcomes[run.capture_cycle] = "FAILURE"
  /\ ~run.TARGET_URL => run.capture_cycle = 0
  /\ Returned(run)
       => IF run.status = "FAILURE" /\ run.TARGET_URL
            THEN run.capture_cycle = run.cycle /\ Got(run, "screenshot", "ok")
            ELSE run.capture_cycle < run.cycle /\ ~CaptureTried(run)

\* The second failed probe in a row has replaced the capture of the first.
C16_Witness ==
  /\ Returned(run) /\ run.TARGET_URL
  /\ run.outcomes = <<"FAILURE", "FAILURE">>
  /\ Got(run, "get", "error")
  /\ run.capture_cycle = 2

\* The call reached the marker wait.
MarkerReached(r) == \E sig \in Signals : Got(r, "marker", sig)

\* C17 (as claimed): a call of check_availability that reached the marker
\* wait returns SUCCESS_NOT_FOUND or SUCCESS_FOUND, never FAILURE, whatever
\* the wait signalled.
C17_NoFailureFromMarkerWait ==
  (Returned(run) /\ MarkerReached(run))
    => run.status \in {"SUCCESS_NOT_FOUND", "SUCCESS_FOUND"}

\* C17 (amended): a call of check_availability that reached the marker wait
\* and returns has outcome SUCCESS_NOT_FOUND when the marker became visible
\* and SUCCESS_FOUND when the wait timed out, unless the context.close()
\* before the return raised; after any other fault of the wait, and after a
\* raising context.close(), it has gone through the failure handler and its
\* outcome is FAILURE.
C17_MarkerWaitFaultIsFailure ==
  (Returned(run) /\ MarkerReached(run))
    => /\ Validated(run)
       /\ IF Got(run, "marker", "error") \/ Got(run, "close", "error")
            THEN run.status = "FAILURE" /\ Got(run, "screenshot", "ok")
            ELSE /\ run.status \in {"SUCCESS_NOT_FOUND", "SUCCESS_FOUND"}
                 /\ run.status = "SUCCESS_NOT_FOUND" <=> Got(run, "marker", "ok")

\* A driver error during the marker wait of the Selenium variant.
C17_Witness ==
  /\ run.variant = "selenium"
  /\ Returned(run)
  /\ Got(run, "marker", "error")
  /\ run.status = "FAILURE"

\* The loop made this event in the current cycle.
Did(r, e) == \E i \in 1..Len(r.events) : r.events[i] = e

\* C18: a payload carries url (the TARGET_URL) and url_title exactly when
\* its message contains "book it now"; the payload of an 'available'
\* notification carries them and the payload of the 'stopped' notification
\* does not; token, user, message, title and priority = 1 are in every
\* payload.
C18_DeepLinkIffBookItNow ==
  LET p == run.payload
  IN /\ p = NoPayload <=> run.post_result = "none"
     /\ p # NoPayload
          => /\ {"token", "user", "message", "title", "priority"} \subseteq p.keys
             /\ p.priority = 1
             /\ p.keys \cap {"url", "url_title"} \in {{}, {"url", "url_title"}}
             /\ "url" \in p.keys <=> Contains(p.message, BookItNow)
             /\ "url" \in p.keys => (p.url = run.TARGET_URL /\ p.url_title = "Book Now!")
             /\ Did(run, "notify_available")
                  => /\ "url" \in p.keys /\ p.url = TRUE
                     /\ p.message = notification_message
             /\ Did(run, "notify_stopped")
                  => /\ "url" \notin p.keys
                     /\ p.title = "Campsite Script Error"

\* An 'available' notification of the Playwright variant, then the
\* 'stopped' notification, was posted.
C18_Witness ==
  /\ run.variant = "playwright"
  /\ run.pc = "STOPPED_FATAL"
  /\ run.available_attempts = 1
  /\ run.posts = 2
  /\ run.payload.keys = {"token", "user", "message", "title", "priority"}

\* What the claim compares of a loop.
LoopView(r) ==
  [pc |-> r.pc, cycle |-> r.cycle, status |-> r.status,
   consecutive_failures |-> r.consecutive_failures,
   counter_seq |-> r.counter_seq, outcomes |-> r.outcomes,
   events |-> r.events, available_log |-> r.available_log,
   available_attempts |-> r.available_attempts,
   stopped_attempts |-> r.stopped_attempts,
   sleeps |-> r.sleeps, posts |-> r.posts]

\* C19: fed the same cycle outcomes and no user interrupt, the __main__
\* loop and background_checker_task agree at every step on
\* consecutive_failures and its history, on the notification attempts of
\* each kind and the cycles they were made in, on the sleeps and on the
\* fatal stop.
C19_LoopsEquivalent ==
  /\ run.variant = "playwright" /\ twin.variant = "selenium"
  /\ LoopView(run) = LoopView(twin)

C19_Witness ==
  /\ run.pc = "STOPPED_FATAL" /\ twin.pc = "STOPPED_FATAL"
  /\ twin.variant = "selenium"
  /\ twin.outcomes = <<"SUCCESS_FOUND", "FAILURE", "FAILURE", "FAILURE">>
  /\ twin.counter_seq = <<0, 1, 2, 3>>
  /\ run.available_log = <<1, 0, 0, 0>>

RECURSIVE CountFound(_)
\* Number of SUCCESS_FOUND outcomes in the sequence.
CountFound(s) ==
  IF Len(s) = 0
    THEN 0
    ELSE (IF Last(s) = "SUCCESS_FOUND" THEN 1 ELSE 0)
           + CountFound(SubSeq(s, 1, Len(s) - 1))

\* Cycles that ran to their end: to the sleep, or to the fatal stop.
Completed(r) == r.sleeps + (IF r.pc = "STOPPED_FATAL" THEN 1 ELSE 0)

\* C20: the notification attempts made so far are one per completed cycle
\* with outcome SUCCESS_FOUND, plus one if the loop has stopped fatally; a
\* FAILURE cycle below the ceiling makes none, no cycle makes both an
\* 'available' and a 'stopped' attempt, and consecutive_failures stays
\* within 0..MAX_CONSECUTIVE_FAILURES.
C20_AttemptsAccounting ==
  /\ Completed(run) <= Len(run.outcomes)
  /\ run.available_attempts + run.stopped_attempts =
       CountFound(Prefix(run.outcomes, Completed(run)))
         + (IF run.pc = "STOPPED_FATAL" THEN 1 ELSE 0)
  /\ (run.pc \in {"sleep", "call"} /\ run.status = "FAILURE")
       => /\ run.events = <<"probe", "update", "sleep">>
          /\ ~Notified(run)
          /\ run.consecutive_failures < MAX_CONSECUTIVE_FAILURES
  /\ ~(Did(run, "notify_available") /\ Did(run, "notify_stopped"))
  /\ run.consecutive_failures \in 0..MAX_CONSECUTIVE_FAILURES

C20_Witness ==
  /\ run.pc = "sleep"
  /\ run.outcomes = <<"FAILURE", "SUCCESS_FOUND", "SUCCESS_FOUND", "FAILURE">>
  /\ run.available_attempts = 2 /\ run.stopped_attempts = 0
  /\ run.consecutive_failures = 1

====
